---- MODULE Spec2Model ----
(***************************************************************************)
(* A model of base64.cpp: base64_encode, base64_encode_pem,                *)
(* base64_encode_mime and base64_decode.                                   *)
(*                                                                         *)
(* A byte and a character are numbers in 0..255; a byte sequence and a     *)
(* text are sequences of them (index i of the source is index i + 1 here). *)
(* A call returns an outcome record: status "ok" and the returned string,  *)
(* or the way the call ended otherwise (an exception, a fault).            *)
(*                                                                         *)
(* Integer widths.  TLC's integers are 32 bit signed, so neither 2^32 nor  *)
(* a 64 bit size_t fits.  The loop counter `pos` of base64_encode (an      *)
(* unsigned int, 32 bit on the usual builds) is modelled UIntBits wide and *)
(* size_t twice as wide, as on an LP64 build (32 / 64).  `chunk` never     *)
(* holds more than 24 bits and is not narrowed.                            *)
(***************************************************************************)
EXTENDS Integers, Sequences, FiniteSets, TLC

VARIABLES pc, fn, bytes, url, enc, text, rlb, env, dec

vars == <<pc, fn, bytes, url, enc, text, rlb, env, dec>>

-----------------------------------------------------------------------------
(* Bounds *)

\* width of the unsigned int loop counter of base64_encode (32 in the build)
UIntBits == 8

\* longest byte sequence over ByteSample that is enumerated exhaustively
MaxLen == 3

\* longest patterned byte sequence below the lengths around 2^UIntBits
MaxPatLen == 120

\* longest tail, after the optional lead, of an enumerated decode input
MaxTextLen == 4

UIntMod == 2 ^ UIntBits

\* size_t is twice as wide as unsigned int
SizeMod == UIntMod * UIntMod

\* std::string::max_size(): push_back / insert past it throws length_error
MaxSize == 2 * UIntMod

-----------------------------------------------------------------------------
(* Bit operations of C++ on non-negative integers *)

\* & and | bit by bit
RECURSIVE AndBits(_, _)
AndBits(x, y) ==
    IF x = 0 \/ y = 0 THEN 0
    ELSE 2 * AndBits(x \div 2, y \div 2) + (IF x % 2 = 1 /\ y % 2 = 1 THEN 1 ELSE 0)

RECURSIVE OrBits(_, _)
OrBits(x, y) ==
    IF x = 0 THEN y
    ELSE IF y = 0 THEN x
    ELSE 2 * OrBits(x \div 2, y \div 2) + (IF x % 2 = 1 \/ y % 2 = 1 THEN 1 ELSE 0)

\* the same on six bits at a time, tabulated once
And6 == [x \in 0 .. 63 |-> [y \in 0 .. 63 |-> AndBits(x, y)]]

Or6 == [x \in 0 .. 63 |-> [y \in 0 .. 63 |-> OrBits(x, y)]]

RECURSIVE BitAnd(_, _)
BitAnd(x, y) ==
    IF x = 0 \/ y = 0 THEN 0
    ELSE 64 * BitAnd(x \div 64, y \div 64) + And6[x % 64][y % 64]

RECURSIVE BitOr(_, _)
BitOr(x, y) ==
    IF x = 0 THEN y
    ELSE IF y = 0 THEN x
    ELSE 64 * BitOr(x \div 64, y \div 64) + Or6[x % 64][y % 64]

Shl(x, k) == x * (2 ^ k)

Shr(x, k) == x \div (2 ^ k)

-----------------------------------------------------------------------------
(* The tables *)

to_base64_chars ==
 << <<
      65,  66,  67,  68,  69,  70,  71,  72,  73,  74,  75,  76,  77,  78,  79,  80,
      81,  82,  83,  84,  85,  86,  87,  88,  89,  90,  97,  98,  99, 100, 101, 102,
     103, 104, 105, 106, 107, 108, 109, 110, 111, 112, 113, 114, 115, 116, 117, 118,
     119, 120, 121, 122,  48,  49,  50,  51,  52,  53,  54,  55,  56,  57,  43,  47 >>,
    <<
      65,  66,  67,  68,  69,  70,  71,  72,  73,  74,  75,  76,  77,  78,  79,  80,
      81,  82,  83,  84,  85,  86,  87,  88,  89,  90,  97,  98,  99, 100, 101, 102,
     103, 104, 105, 106, 107, 108, 109, 110, 111, 112, 113, 114, 115, 116, 117, 118,
     119, 120, 121, 122,  48,  49,  50,  51,  52,  53,  54,  55,  56,  57,  45,  95 >> >>

\* a reverse table that knows the standard alphabet only
from_base64_chars_std_only ==
  <<
     64, 64, 64, 64, 64, 64, 64, 64, 64, 64, 64, 64, 64, 64, 64, 64,
     64, 64, 64, 64, 64, 64, 64, 64, 64, 64, 64, 64, 64, 64, 64, 64,
     64, 64, 64, 64, 64, 64, 64, 64, 64, 64, 64, 62, 64, 64, 64, 63,
     52, 53, 54, 55, 56, 57, 58, 59, 60, 61, 64, 64, 64, 64, 64, 64,
     64,  0,  1,  2,  3,  4,  5,  6,  7,  8,  9, 10, 11, 12, 13, 14,
     15, 16, 17, 18, 19, 20, 21, 22, 23, 24, 25, 64, 64, 64, 64, 64,
     64, 26, 27, 28, 29, 30, 31, 32, 33, 34, 35, 36, 37, 38, 39, 40,
     41, 42, 43, 44, 45, 46, 47, 48, 49, 50, 51, 64, 64, 64, 64, 64,
     64, 64, 64, 64, 64, 64, 64, 64, 64, 64, 64, 64, 64, 64, 64, 64,
     64, 64, 64, 64, 64, 64, 64, 64, 64, 64, 64, 64, 64, 64, 64, 64,
     64, 64, 64, 64, 64, 64, 64, 64, 64, 64, 64, 64, 64, 64, 64, 64,
     64, 64, 64, 64, 64, 64, 64, 64, 64, 64, 64, 64, 64, 64, 64, 64,
     64, 64, 64, 64, 64, 64, 64, 64, 64, 64, 64, 64, 64, 64, 64, 64,
     64, 64, 64, 64, 64, 64, 64, 64, 64, 64, 64, 64, 64, 64, 64, 64,
     64, 64, 64, 64, 64, 64, 64, 64, 64, 64, 64, 64, 64, 64, 64, 64,
     64, 64, 64, 64, 64, 64, 64, 64, 64, 64, 64, 64, 64, 64, 64, 64 >>

from_base64_chars ==
  <<
     64, 64, 64, 64, 64, 64, 64, 64, 64, 64, 64, 64, 64, 64, 64, 64,
     64, 64, 64, 64, 64, 64, 64, 64, 64, 64, 64, 64, 64, 64, 64, 64,
     64, 64, 64, 64, 64, 64, 64, 64, 64, 64, 64, 62, 64, 62, 64, 63,
     52, 53, 54, 55, 56, 57, 58, 59, 60, 61, 64, 64, 64, 64, 64, 64,
     64,  0,  1,  2,  3,  4,  5,  6,  7,  8,  9, 10, 11, 12, 13, 14,
     15, 16, 17, 18, 19, 20, 21, 22, 23, 24, 25, 64, 64, 64, 64, 63,
     64, 26, 27, 28, 29, 30, 31, 32, 33, 34, 35, 36, 37, 38, 39, 40,
     41, 42, 43, 44, 45, 46, 47, 48, 49, 50, 51, 64, 64, 64, 64, 64,
     64, 64, 64, 64, 64, 64, 64, 64, 64, 64, 64, 64, 64, 64, 64, 64,
     64, 64, 64, 64, 64, 64, 64, 64, 64, 64, 64, 64, 64, 64, 64, 64,
     64, 64, 64, 64, 64, 64, 64, 64, 64, 64, 64, 64, 64, 64, 64, 64,
     64, 64, 64, 64, 64, 64, 64, 64, 64, 64, 64, 64, 64, 64, 64, 64,
     64, 64, 64, 64, 64, 64, 64, 64, 64, 64, 64, 64, 64, 64, 64, 64,
     64, 64, 64, 64, 64, 64, 64, 64, 64, 64, 64, 64, 64, 64, 64, 64,
     64, 64, 64, 64, 64, 64, 64, 64, 64, 64, 64, 64, 64, 64, 64, 64,
     64, 64, 64, 64, 64, 64, 64, 64, 64, 64, 64, 64, 64, 64, 64, 64 >>

\* the characters the source names
NewLine == 10

PadStd == 61

PadUrl == 46

-----------------------------------------------------------------------------
(* base64_encode(bytes_to_encode, in_len, url) *)

Ok(ret) == [status |-> "ok", ret |-> ret]

Threw(what) == [status |-> what, ret |-> <<>>]

len_encoded(in_len) == ((((in_len + 2) % SizeMod) \div 3) * 4) % SizeMod

trailing_char_swapped(u) == IF u THEN PadStd ELSE PadUrl

trailing_char(u) == IF u THEN PadUrl ELSE PadStd

\* base64_chars_[i]
Sym(chars, i) == chars[i + 1]

\* the four push_backs of one pass of the loop, chunk built from three bytes
EncodeGroup(b0, b1, b2, chars) ==
    LET chunk == BitOr(BitOr(Shl(b0, 16), Shl(b1, 8)), b2)
    IN  << Sym(chars, Shr(chunk, 18)),
           Sym(chars, BitAnd(Shr(chunk, 12), 63)),
           Sym(chars, BitAnd(Shr(chunk, 6), 63)),
           Sym(chars, BitAnd(chunk, 63)) >>

\* One pass of while (pos < len) { ... pos += 3; } from the loop state
\* st = [status, pos, ret].  pos is an unsigned int: pos + k and pos += 3 wrap
\* at UIntMod.  A read at an index >= in_len is undefined; the pass reports it
\* instead of choosing a value.
EncodePass(b, chars, st) ==
    LET i0 == (st.pos + 0) % UIntMod
        i1 == (st.pos + 1) % UIntMod
        i2 == (st.pos + 2) % UIntMod
    IN  IF i0 >= Len(b) \/ i1 >= Len(b) \/ i2 >= Len(b)
        THEN [st EXCEPT !.status = "out_of_bounds_read"]
        ELSE IF Len(st.ret) + 4 > MaxSize
        THEN [st EXCEPT !.status = "length_error"]
        ELSE [status |-> "ok",
              pos    |-> (st.pos + 3) % UIntMod,
              ret    |-> st.ret \o EncodeGroup(b[i0 + 1], b[i1 + 1], b[i2 + 1], chars)]

\* The loop: passes are made while pos < len and nothing was thrown.  n bounds
\* the number of passes (a pass pushes four characters, so MaxSize passes
\* always suffice); the passes are split in halves to keep the evaluation
\* shallow.
RECURSIVE EncodeLoop(_, _, _, _, _)
EncodeLoop(b, len, chars, st, n) ==
    IF st.status # "ok" \/ ~(st.pos < len) \/ n = 0 THEN st
    ELSE IF n = 1 THEN EncodePass(b, chars, st)
    ELSE EncodeLoop(b, len, chars, EncodeLoop(b, len, chars, st, n \div 2), n - (n \div 2))

\* case 2 with the third symbol taken from chunk >> 2, not chunk << 2
EncodeTail_shift(b, pos, pad, u) ==
    LET chars == to_base64_chars[IF u THEN 2 ELSE 1]
        i0    == (pos + 0) % UIntMod
        i1    == (pos + 1) % UIntMod
    IN  IF pad = 2
        THEN LET chunk == BitOr(Shl(b[i0 + 1], 8), b[i1 + 1])
             IN  << Sym(chars, Shr(chunk, 10)),
                    Sym(chars, BitAnd(Shr(chunk, 4), 63)),
                    Sym(chars, BitAnd(Shr(chunk, 2), 63)),
                    trailing_char(u) >>
        ELSE IF pad = 1
        THEN LET chunk == b[i0 + 1]
             IN  << Sym(chars, Shr(chunk, 2)),
                    Sym(chars, BitAnd(Shl(chunk, 4), 63)),
                    trailing_char(u), trailing_char(u) >>
        ELSE <<>>

\* case 1 with a single trailing character
EncodeTail_onepad(b, pos, pad, u) ==
    LET chars == to_base64_chars[IF u THEN 2 ELSE 1]
        i0    == (pos + 0) % UIntMod
        i1    == (pos + 1) % UIntMod
    IN  IF pad = 2
        THEN LET chunk == BitOr(Shl(b[i0 + 1], 8), b[i1 + 1])
             IN  << Sym(chars, Shr(chunk, 10)),
                    Sym(chars, BitAnd(Shr(chunk, 4), 63)),
                    Sym(chars, BitAnd(Shl(chunk, 2), 63)),
                    trailing_char(u) >>
        ELSE IF pad = 1
        THEN LET chunk == b[i0 + 1]
             IN  << Sym(chars, Shr(chunk, 2)),
                    Sym(chars, BitAnd(Shl(chunk, 4), 63)),
                    trailing_char(u) >>
        ELSE <<>>

\* switch (pad): what the cases push after the loop
EncodeTail(b, pos, pad, u) ==
    LET chars == to_base64_chars[IF u THEN 2 ELSE 1]
        i0    == (pos + 0) % UIntMod
        i1    == (pos + 1) % UIntMod
    IN  IF pad = 2
        THEN LET chunk == BitOr(Shl(b[i0 + 1], 8), b[i1 + 1])
             IN  << Sym(chars, Shr(chunk, 10)),
                    Sym(chars, BitAnd(Shr(chunk, 4), 63)),
                    Sym(chars, BitAnd(Shl(chunk, 2), 63)),
                    trailing_char(u) >>
        ELSE IF pad = 1
        THEN LET chunk == b[i0 + 1]
             IN  << Sym(chars, Shr(chunk, 2)),
                    Sym(chars, BitAnd(Shl(chunk, 4), 63)),
                    trailing_char(u), trailing_char(u) >>
        ELSE <<>>

base64_encode(b, u) ==
    LET in_len == Len(b)
        pad    == in_len % 3
        len    == in_len - pad
        chars  == to_base64_chars[IF u THEN 2 ELSE 1]
    IN  IF len_encoded(in_len) > MaxSize
        THEN Threw("length_error")
        ELSE LET loop == EncodeLoop(b, len, chars,
                                    [status |-> "ok", pos |-> 0, ret |-> <<>>], MaxSize)
             IN  IF loop.status # "ok"
                 THEN Threw(loop.status)
                 ELSE IF \E k \in 0 .. pad - 1 : ((loop.pos + k) % UIntMod) >= in_len
                 THEN Threw("out_of_bounds_read")
                 ELSE IF Len(loop.ret) + (IF pad > 0 THEN 4 ELSE 0) > MaxSize
                 THEN Threw("length_error")
                 ELSE Ok(loop.ret \o EncodeTail(b, loop.pos, pad, u))

-----------------------------------------------------------------------------
(* insert_linebreaks, encode_with_line_breaks, encode_pem, encode_mime *)

\* str.insert(pos, "\n")
InsertAt(str, pos, c) == SubSeq(str, 1, pos) \o <<c>> \o SubSeq(str, pos + 1, Len(str))

\* the loop with pos += distance, the inserted character not counted
RECURSIVE InsertLoop_nostep(_, _, _)
InsertLoop_nostep(str, pos, distance) ==
    IF pos < Len(str)
    THEN IF Len(str) + 1 > MaxSize
         THEN Threw("length_error")
         ELSE InsertLoop_nostep(InsertAt(str, pos, NewLine), (pos + distance) % SizeMod, distance)
    ELSE Ok(str)

\* while (pos < str.size()) { str.insert(pos, "\n"); pos += distance + 1; }
RECURSIVE InsertLoop(_, _, _)
InsertLoop(str, pos, distance) ==
    IF pos < Len(str)
    THEN IF Len(str) + 1 > MaxSize
         THEN Threw("length_error")
         ELSE InsertLoop(InsertAt(str, pos, NewLine), (pos + distance + 1) % SizeMod, distance)
    ELSE Ok(str)

insert_linebreaks(str, distance) ==
    IF str = <<>> THEN Ok(str) ELSE InsertLoop(str, distance, distance)

encode_with_line_breaks(s, line_length) ==
    LET e == base64_encode(s, FALSE)
    IN  IF e.status # "ok" THEN e ELSE insert_linebreaks(e.ret, line_length)

encode_pem(s) == encode_with_line_breaks(s, 64)

encode_mime(s) == encode_with_line_breaks(s, 76)

-----------------------------------------------------------------------------
(* pos_of_char and decode *)

\* ok = FALSE stands for the std::runtime_error it throws
pos_of_char(chr) ==
    IF from_base64_chars[chr + 1] # 64
    THEN [ok |-> TRUE, v |-> from_base64_chars[chr + 1]]
    ELSE [ok |-> FALSE, v |-> 64]

\* What a read of encoded_string[i] finds.  An index below the length is the
\* character.  An index at or past the length is outside the input: a
\* std::string holds '\0' at its length (e.nul); anything else is undefined and
\* yields whatever follows the input in memory (e.g), or a fault (e.fault).
Outside(s, i) == i >= Len(s)

Faults(s, i, e) == Outside(s, i) /\ ~(e.nul /\ i = Len(s)) /\ e.fault

CharAt(s, i, e) ==
    IF i < Len(s) THEN s[i + 1]
    ELSE IF e.nul /\ i = Len(s) THEN 0
    ELSE e.g

\* The operands pos_of_char(encoded_string[i]) of one chunk expression, for
\* the indices idxs in the order the build evaluates them: the first fault or
\* throw ends the evaluation.
RECURSIVE Operands(_, _, _)
Operands(s, idxs, e) ==
    IF idxs = <<>> THEN [status |-> "ok", vals |-> <<>>, oob |-> FALSE]
    ELSE LET i == Head(idxs)
         IN  IF Faults(s, i, e)
             THEN [status |-> "crash", vals |-> <<>>, oob |-> TRUE]
             ELSE LET p == pos_of_char(CharAt(s, i, e))
                  IN  IF ~p.ok
                      THEN [status |-> "runtime_error", vals |-> <<>>, oob |-> Outside(s, i)]
                      ELSE LET rest == Operands(s, Tail(idxs), e)
                           IN  [status |-> rest.status,
                                vals   |-> <<p.v>> \o rest.vals,
                                oob    |-> Outside(s, i) \/ rest.oob]

Reverse(q) == [k \in 1 .. Len(q) |-> q[Len(q) + 1 - k]]

\* the operands at pos + 0 .. pos + n - 1 (size_t arithmetic), values in
\* source order whatever the evaluation order (e.rtl: right to left)
OperandsAt(s, pos, n, e) ==
    LET idxs == [k \in 1 .. n |-> (pos + k - 1) % SizeMod]
    IN  IF e.rtl
        THEN LET r == Operands(s, Reverse(idxs), e)
             IN  [r EXCEPT !.vals = Reverse(r.vals)]
        ELSE Operands(s, idxs, e)

\* a full quad: four indices into a 24 bit chunk, three bytes
DecodeQuad(v) ==
    LET chunk == BitOr(BitOr(BitOr(Shl(v[1], 18), Shl(v[2], 12)), Shl(v[3], 6)), v[4])
    IN  << BitAnd(Shr(chunk, 16), 255), BitAnd(Shr(chunk, 8), 255), BitAnd(chunk, 255) >>

\* the branch for a pad at pos + 3 with the bytes taken at shifts 8 and 0
DecodeThree_shift(v) ==
    LET chunk == BitOr(BitOr(Shl(v[1], 12), Shl(v[2], 6)), v[3])
    IN  << BitAnd(Shr(chunk, 8), 255), BitAnd(chunk, 255) >>

\* the branch for a pad at pos + 3: three indices, two bytes
DecodeThree(v) ==
    LET chunk == BitOr(BitOr(Shl(v[1], 12), Shl(v[2], 6)), v[3])
    IN  << BitAnd(Shr(chunk, 10), 255), BitAnd(Shr(chunk, 2), 255) >>

\* the branch for a pad at pos + 2: two indices, one byte
DecodeTwo(v) ==
    LET chunk == BitOr(Shl(v[1], 6), v[2])
    IN  << BitAnd(Shr(chunk, 4), 255) >>

DOk(ret, oob) == [status |-> "ok", ret |-> ret, oob |-> oob]

DEnd(what, oob) == [status |-> what, ret |-> <<>>, oob |-> oob]

\* One pass of while (pos < len) { ... pos += 4; } from the loop state
\* st = [status, pos, ret, oob]; pos is a size_t.
DecodePass(s, e, st) ==
    LET ops == OperandsAt(s, st.pos, 4, e)
    IN  IF ops.status # "ok"
        THEN [st EXCEPT !.status = ops.status, !.oob = st.oob \/ ops.oob]
        ELSE IF Len(st.ret) + 3 > MaxSize
        THEN [st EXCEPT !.status = "length_error", !.oob = st.oob \/ ops.oob]
        ELSE [status |-> "ok",
              pos    |-> (st.pos + 4) % SizeMod,
              ret    |-> st.ret \o DecodeQuad(ops.vals),
              oob    |-> st.oob \/ ops.oob]

\* The loop, at most n passes, split in halves as in EncodeLoop
RECURSIVE DecodeLoop(_, _, _, _, _)
DecodeLoop(s, len, e, st, n) ==
    IF st.status # "ok" \/ ~(st.pos < len) \/ n = 0 THEN st
    ELSE IF n = 1 THEN DecodePass(s, e, st)
    ELSE DecodeLoop(s, len, e, DecodeLoop(s, len, e, st, n \div 2), n - (n \div 2))

IsPad(c) == c = PadStd \/ c = PadUrl

\* the if / else if / else after the loop.  The conditions read
\* encoded_string[pos + 2] and then encoded_string[pos + 3] directly.
DecodeFinal(s, pos, ret, oob, e) ==
    LET i2   == (pos + 2) % SizeMod
        i3   == (pos + 3) % SizeMod
        oob2 == oob \/ Outside(s, i2)
        oob3 == oob2 \/ Outside(s, i3)
        fin(ops, out, o) ==
            IF ops.status # "ok" THEN DEnd(ops.status, o \/ ops.oob)
            ELSE IF Len(ret) + Len(out) > MaxSize THEN DEnd("length_error", o \/ ops.oob)
            ELSE DOk(ret \o out, o \/ ops.oob)
    IN  IF Faults(s, i2, e) THEN DEnd("crash", oob2)
        ELSE IF IsPad(CharAt(s, i2, e))
        THEN LET ops == OperandsAt(s, pos, 2, e)
             IN  fin(ops, IF ops.status = "ok" THEN DecodeTwo(ops.vals) ELSE <<>>, oob2)
        ELSE IF Faults(s, i3, e) THEN DEnd("crash", oob3)
        ELSE IF IsPad(CharAt(s, i3, e))
        THEN LET ops == OperandsAt(s, pos, 3, e)
             IN  fin(ops, IF ops.status = "ok" THEN DecodeThree(ops.vals) ELSE <<>>, oob3)
        ELSE LET ops == OperandsAt(s, pos, 4, e)
             IN  fin(ops, IF ops.status = "ok" THEN DecodeQuad(ops.vals) ELSE <<>>, oob3)

\* a removal that stops after the first line break
RemoveLinebreaks_first(s) ==
    IF \E k \in 1 .. Len(s) : s[k] = NewLine
    THEN LET k == CHOOSE k \in 1 .. Len(s) : s[k] = NewLine /\ \A j \in 1 .. k - 1 : s[j] # NewLine
         IN  SubSeq(s, 1, k - 1) \o SubSeq(s, k + 1, Len(s))
    ELSE s

\* copy.erase(std::remove(copy.begin(), copy.end(), '\n'), copy.end())
RemoveLinebreaks(s) == SelectSeq(s, LAMBDA c : c # NewLine)

\* decode<String>; base64_decode(copy, false) is decode on a std::string
RECURSIVE decode(_, _, _)
decode(encoded_string, remove_linebreaks, e) ==
    IF encoded_string = <<>> THEN DOk(<<>>, FALSE)
    ELSE IF remove_linebreaks
    THEN decode(RemoveLinebreaks(encoded_string), FALSE, [e EXCEPT !.nul = TRUE])
    ELSE LET in_len == Len(encoded_string)
             len    == (in_len - 4) % SizeMod
             loop   == DecodeLoop(encoded_string, len, e,
                                  [status |-> "ok", pos |-> 0, ret |-> <<>>, oob |-> FALSE],
                                  MaxSize)
         IN  IF loop.status # "ok"
             THEN DEnd(loop.status, loop.oob)
             ELSE DecodeFinal(encoded_string, loop.pos, loop.ret, loop.oob, e)

base64_decode(s, remove_linebreaks, e) == decode(s, remove_linebreaks, e)

-----------------------------------------------------------------------------
(* The inputs the calls are made with *)

SeqsUpTo(S, n) == UNION {[1 .. k -> S] : k \in 0 .. n}

\* 0x00, "Man", 0xFF
ByteSample == {0, 77, 97, 110, 255}

\* every byte value at each place of a group
ByteSweep ==
    {<<b>> : b \in 0 .. 255}
    \cup {<<b, (7 * b + 3) % 256>> : b \in 0 .. 255}
    \cup {<<(5 * b + 1) % 256, (3 * b + 2) % 256, b>> : b \in 0 .. 255}

Pattern(n, seed) == [i \in 1 .. n |-> (seed * i + 11) % 256]

\* every length up to MaxPatLen (one to three lines of 64 or 76 symbols) and
\* the lengths around the largest value of the loop counter
PatternLens == (0 .. MaxPatLen) \cup ((UIntMod - 3) .. (UIntMod + 3))

ByteInputs ==
    SeqsUpTo(ByteSample, MaxLen) \cup ByteSweep
    \cup {Pattern(n, seed) : n \in PatternLens, seed \in {1, 83}}

\* 'A', '_', '=', '!'
CharSample == {65, 95, 61, 33}

\* nothing, "TW-u", "TW\nFu"
Leads == {<<>>, <<84, 87, 45, 117>>, <<84, 87, 10, 70, 117>>}

TextInputs == {q \o t : q \in Leads, t \in SeqsUpTo(CharSample, MaxTextLen)}

\* what lies past the input, and the order a chunk's operands are evaluated in
Envs ==
    { [g |-> 0,  fault |-> FALSE, rtl |-> FALSE, nul |-> TRUE],
      [g |-> 65, fault |-> FALSE, rtl |-> FALSE, nul |-> FALSE],
      [g |-> 0,  fault |-> TRUE,  rtl |-> TRUE,  nul |-> FALSE] }

\* the environments tried on a string an encoding call returned: a
\* std::string, and a view with unmapped memory behind it
EncodedEnvs ==
    { [g |-> 0, fault |-> FALSE, rtl |-> FALSE, nul |-> TRUE],
      [g |-> 0, fault |-> TRUE,  rtl |-> TRUE,  nul |-> FALSE] }

-----------------------------------------------------------------------------
(* The calls *)

NoEnc == [status |-> "none", ret |-> <<>>]

NoDec == [status |-> "none", ret |-> <<>>, oob |-> FALSE]

Init ==
    /\ pc = "idle"
    /\ fn = "none"
    /\ bytes = <<>>
    /\ url = FALSE
    /\ enc = NoEnc
    /\ text = <<>>
    /\ rlb = FALSE
    /\ env = [g |-> 0, fault |-> FALSE, rtl |-> FALSE, nul |-> TRUE]
    /\ dec = NoDec

\* std::string base64_encode(std::string const& s, bool url)
Base64Encode ==
    /\ pc = "idle"
    /\ \E b \in ByteInputs, u \in BOOLEAN :
          /\ bytes' = b
          /\ url' = u
          /\ enc' = base64_encode(b, u)
    /\ pc' = "encoded"
    /\ fn' = "base64_encode"
    /\ UNCHANGED <<text, rlb, env, dec>>

\* std::string base64_encode_pem(std::string const& s)
Base64EncodePem ==
    /\ pc = "idle"
    /\ \E b \in ByteInputs :
          /\ bytes' = b
          /\ enc' = encode_pem(b)
    /\ pc' = "encoded"
    /\ fn' = "base64_encode_pem"
    /\ url' = FALSE
    /\ UNCHANGED <<text, rlb, env, dec>>

\* std::string base64_encode_mime(std::string const& s)
Base64EncodeMime ==
    /\ pc = "idle"
    /\ \E b \in ByteInputs :
          /\ bytes' = b
          /\ enc' = encode_mime(b)
    /\ pc' = "encoded"
    /\ fn' = "base64_encode_mime"
    /\ url' = FALSE
    /\ UNCHANGED <<text, rlb, env, dec>>

\* base64_decode applied to the string an encoding call returned
Base64DecodeEncoded ==
    /\ pc = "encoded"
    /\ enc.status = "ok"
    /\ \E r \in BOOLEAN, e \in EncodedEnvs :
          /\ rlb' = r
          /\ env' = e
          /\ dec' = base64_decode(enc.ret, r, e)
    /\ pc' = "decoded"
    /\ text' = enc.ret
    /\ UNCHANGED <<fn, bytes, url, enc>>

\* base64_decode applied to a text of the caller
Base64DecodeText ==
    /\ pc = "idle"
    /\ \E t \in TextInputs, r \in BOOLEAN, e \in Envs :
          /\ text' = t
          /\ rlb' = r
          /\ env' = e
          /\ dec' = base64_decode(t, r, e)
    /\ pc' = "decoded"
    /\ UNCHANGED <<fn, bytes, url, enc>>

Next ==
    \/ Base64Encode
    \/ Base64EncodePem
    \/ Base64EncodeMime
    \/ Base64DecodeEncoded
    \/ Base64DecodeText

Spec == Init /\ [][Next]_vars

-----------------------------------------------------------------------------
(* Reference definitions the claims are stated with *)

\* the i-th symbol of the alphabet of RFC 4648 (url: the url-safe one)
RefSym(i, u) ==
    IF i < 26 THEN 65 + i
    ELSE IF i < 52 THEN 97 + (i - 26)
    ELSE IF i < 62 THEN 48 + (i - 52)
    ELSE IF i = 62 THEN (IF u THEN 45 ELSE 43)
    ELSE (IF u THEN 95 ELSE 47)

RefPad(u) == IF u THEN 46 ELSE 61

Ceil3(n) == (n + 2) \div 3

\* byte j (from 0) of group k (from 0) of b, 0 where b has ended
RefByte(b, k, j) == IF 3 * k + j + 1 <= Len(b) THEN b[3 * k + j + 1] ELSE 0

\* the group packed big-endian into 24 bits
RefPacked(b, k) == 65536 * RefByte(b, k, 0) + 256 * RefByte(b, k, 1) + RefByte(b, k, 2)

\* a group of nb bytes yields nb + 1 symbols, the 6 bit fields at shifts
\* 18, 12, 6, 0, and 3 - nb pad symbols
RefEncode(b, u) ==
    [j \in 1 .. 4 * Ceil3(Len(b)) |->
        LET k  == (j - 1) \div 4
            m  == (j - 1) % 4
            nb == IF Len(b) - 3 * k >= 3 THEN 3 ELSE Len(b) - 3 * k
        IN  IF m <= nb
            THEN RefSym((RefPacked(b, k) \div (2 ^ (18 - 6 * m))) % 64, u)
            ELSE RefPad(u)]

Count(c, s) == Cardinality({k \in 1 .. Len(s) : s[k] = c})

WithoutNewlines(s) == SelectSeq(s, LAMBDA c : c # 10)

InAlphabet(c) == \E a \in 1 .. 2, i \in 1 .. 64 : to_base64_chars[a][i] = c

\* the characters that differ between the variants only
Class(c) ==
    IF c \in {43, 45} THEN {43, 45}
    ELSE IF c \in {47, 95} THEN {47, 95}
    ELSE IF c \in {61, 46} THEN {61, 46}
    ELSE {c}

RECURSIVE Variants(_)
Variants(t) ==
    IF t = <<>> THEN {<<>>}
    ELSE {<<c>> \o r : c \in Class(Head(t)), r \in Variants(Tail(t))}

Returned == pc = "encoded" /\ enc.status = "ok"

-----------------------------------------------------------------------------
(* The claims *)

C5_WrappingLaw ==
    (Returned /\ fn \in {"base64_encode_pem", "base64_encode_mime"})
        => LET W     == IF fn = "base64_encode_pem" THEN 64 ELSE 76
               plain == base64_encode(bytes, FALSE).ret
               out   == enc.ret
           IN  /\ WithoutNewlines(out) = plain
               /\ (out = <<>>) <=> (bytes = <<>>)
               /\ out # <<>> => out[Len(out)] # 10
               /\ \A k \in 1 .. Len(out) : (out[k] = 10) <=> (k % (W + 1) = 0)
               /\ out # <<>> => Len(out) = Len(plain) + ((Len(plain) - 1) \div W)

C5_Witness ==
    /\ Returned /\ fn = "base64_encode_pem"
    /\ Len(bytes) = 100
    /\ Count(10, enc.ret) = 2
    /\ Len(enc.ret) = 2 * 65 + 8

C7_LengthLaw ==
    (Returned /\ fn = "base64_encode")
        => /\ Len(enc.ret) = Ceil3(Len(bytes)) * 4
           /\ Len(enc.ret) = len_encoded(Len(bytes))

C7_Witness ==
    /\ Returned /\ fn = "base64_encode"
    /\ Len(bytes) = 4 /\ Len(enc.ret) = 8

\* C8: the output of base64_encode holds 0, 2 or 1 pad symbols for n mod 3
\* = 0, 1 or 2 bytes; they are its last characters; the pad symbol is '=' for
\* the standard variant and '.' for the url-safe one.
C8_PaddingLaw ==
    (Returned /\ fn = "base64_encode")
        => LET out  == enc.ret
               p    == IF url THEN 46 ELSE 61
               pads == (3 - (Len(bytes) % 3)) % 3
           IN  /\ Count(p, out) = pads
               /\ \A k \in 1 .. Len(out) : (out[k] \in {46, 61}) <=> (k > Len(out) - pads)
               /\ \A k \in 1 .. Len(out) : k > Len(out) - pads => out[k] = p

C8_Witness ==
    /\ Returned /\ fn = "base64_encode" /\ url
    /\ Len(bytes) % 3 = 1 /\ Count(46, enc.ret) = 2

\* C9: the reverse table maps a byte to i exactly when it is the i-th symbol
\* of one of the two alphabets and to 64 otherwise (the table never changes:
\* it is examined in the initial state); swapping '+' with '-', '/' with '_'
\* and '=' with '.' at any places of a text leaves the outcome of decode as it
\* was; the two encodings of the same bytes decode to the same outcome.
C9_AlphabetTolerant ==
    /\ pc = "idle" =>
          \A c \in 0 .. 255 :
             /\ \A i \in 0 .. 63 :
                   (from_base64_chars[c + 1] = i)
                      <=> (to_base64_chars[1][i + 1] = c \/ to_base64_chars[2][i + 1] = c)
             /\ (from_base64_chars[c + 1] = 64) <=> ~InAlphabet(c)
             /\ pos_of_char(c).ok <=> InAlphabet(c)
    /\ (pc = "decoded" /\ fn = "none") =>
          \A t \in Variants(text) : base64_decode(t, rlb, env) = dec
    /\ (Returned /\ fn = "base64_encode" /\ url) =>
          \A e \in EncodedEnvs :
             base64_decode(enc.ret, FALSE, e)
                = base64_decode(base64_encode(bytes, FALSE).ret, FALSE, e)

C9_Witness ==
    /\ pc = "decoded" /\ fn = "none" /\ ~rlb
    /\ text = <<84, 87, 45, 117, 65, 95, 61, 61>>
    /\ dec.status = "ok" /\ Len(dec.ret) = 4

\* C3: a decode input (remove_linebreaks = false) whose length is not a
\* multiple of 4 is rejected: decode throws (the source has one exception, the
\* std::runtime_error of pos_of_char; it stands for the malformed length
\* error), returns no bytes, and reads no character outside the input.
C3_MalformedLengthRejected ==
    (pc = "decoded" /\ ~rlb /\ Len(text) % 4 # 0)
        => (dec.status = "runtime_error" /\ dec.ret = <<>> /\ ~dec.oob)

\* C4: a decode input (remove_linebreaks = false) whose length is a positive
\* multiple of 4 and that holds, at any place, a character that is neither a
\* symbol of one of the alphabets nor '=' nor '.' fails with the invalid symbol
\* error (the std::runtime_error of pos_of_char) and returns nothing.
C4_InvalidSymbolRejected ==
    (/\ pc = "decoded" /\ ~rlb
     /\ Len(text) > 0 /\ Len(text) % 4 = 0
     /\ \E k \in 1 .. Len(text) : ~InAlphabet(text[k]) /\ text[k] \notin {61, 46})
        => (dec.status = "runtime_error" /\ dec.ret = <<>>)

\* C10: base64_encode is total: for every in_len, also one above the largest
\* value of the unsigned int pos, the loop ends, no byte past in_len is read
\* and the call returns without an error.
C10_EncodeTotal ==
    (pc = "encoded" /\ fn = "base64_encode") => enc.status = "ok"

====
